---- MODULE Spec2Model ----
(***************************************************************************)
(* VideoCodecInitializer (modules/video_coding/video_codec_initializer.cc) *)
(*                                                                         *)
(* SetupCodec resolves the codec type, recurses once for the multiplex     *)
(* codec, runs VideoEncoderConfigToVideoCodec and CreateBitrateAllocator.  *)
(* The model runs one invocation at a time, statement block by statement   *)
(* block.  An RTC_DCHECK that fails aborts the invocation (pc = "fault").  *)
(***************************************************************************)
EXTENDS Integers, Sequences, FiniteSets, TLC

VARIABLES
    pc,                 \* position of the running invocation
    stack,              \* SetupCodec activation records, innermost last
    outer_config,       \* argument: VideoEncoderConfig of the caller's call
    settings,           \* argument: legacy EncoderSettings hint
    streams,            \* argument: std::vector<VideoStream>
    nack_enabled,       \* argument
    video_codec,        \* local of VideoEncoderConfigToVideoCodec
    i,                  \* loop index of the running for loop
    spatial_layers,     \* local of the VP9 branch
    codec,              \* out-parameter *codec
    bitrate_allocator,  \* out-parameter *bitrate_allocator
    result,             \* value returned by the last completed SetupCodec
    simWritten,         \* indices of simulcastStream[] written so far
    slWritten,          \* indices of spatialLayers[] written so far
    factory_arg,        \* argument of a direct CreateBitrateAllocator call
    factory_out         \* its result

vars == <<pc, stack, outer_config, settings, streams, nack_enabled, video_codec, i,
          spatial_layers, codec, bitrate_allocator, result, simWritten,
          slWritten, factory_arg, factory_out>>

---------------------------------------------------------------------------
(* Program constants *)

kEncoderMinBitrateKbps == 30
kMaxSimulcastStreams == 4
kMaxSpatialLayers == 5
kMaxTemporalStreams == 4

\* widths of the unsigned types the code casts to
Uint8 == 2 ^ 8
Uint16 == 2 ^ 16

VideoCodecType ==
    {"kVideoCodecVP8", "kVideoCodecVP9", "kVideoCodecH264", "kVideoCodecI420",
     "kVideoCodecGeneric", "kVideoCodecMultiplex", "kVideoCodecUnknown"}

\* rtc::Optional<size_t> without a value
Unset == -1

value_or(opt, dflt) == IF opt = Unset THEN dflt ELSE opt

Min2(a, b) == IF b < a THEN b ELSE a
Max2(a, b) == IF a < b THEN b ELSE a

\* static_cast to uint16_t / unsigned char of a non-negative value
U16(x) == x % Uint16
U8(x) == x % Uint8

\* bits/sec to kbps: C++ integer division of non-negative operands
Kbps(bps) == bps \div 1000

---------------------------------------------------------------------------
(* Value records *)

NoSettings == [none |-> TRUE]
NoCodec == [unset |-> TRUE]
NoAllocator == [unset |-> TRUE]

ZeroStream ==
    [width |-> 0, height |-> 0, numberOfTemporalLayers |-> 0,
     maxBitrate |-> 0, targetBitrate |-> 0, minBitrate |-> 0,
     qpMax |-> 0, active |-> FALSE]

ZeroVP8 ==
    [resilience |-> "kResilienceOff", numberOfTemporalLayers |-> 0,
     denoisingOn |-> FALSE]

ZeroVP9 ==
    [resilienceOn |-> FALSE, numberOfTemporalLayers |-> 0,
     numberOfSpatialLayers |-> 0, flexibleMode |-> FALSE]

ZeroH264 == [frameDroppingOn |-> FALSE]

\* memset(&video_codec, 0, sizeof(video_codec))
ZeroVideoCodec ==
    [codecType |-> "kVideoCodecVP8", mode |-> "kRealtimeVideo",
     targetBitrate |-> 0, plType |-> 0, numberOfSimulcastStreams |-> 0,
     minBitrate |-> 0, maxBitrate |-> 0, active |-> FALSE,
     timing_frame_thresholds |-> "zero",
     simulcastStream |-> [k \in 0 .. kMaxSimulcastStreams - 1 |-> ZeroStream],
     width |-> 0, height |-> 0, qpMax |-> 0, maxFramerate |-> 0,
     spatialLayers |-> [k \in 0 .. kMaxSpatialLayers - 1 |-> ZeroStream],
     VP8 |-> ZeroVP8, VP9 |-> ZeroVP9, H264 |-> ZeroH264]

---------------------------------------------------------------------------
(* External collaborators *)

PayloadStringToCodecType(name) ==
    CASE name = "VP8" -> "kVideoCodecVP8"
      [] name = "VP9" -> "kVideoCodecVP9"
      [] name = "I420" -> "kVideoCodecI420"
      [] name = "H264" -> "kVideoCodecH264"
      [] name = "Multiplex" -> "kVideoCodecMultiplex"
      [] OTHER -> "kVideoCodecGeneric"

GetDefaultVp8Settings ==
    [resilience |-> "kResilientStream", numberOfTemporalLayers |-> 1,
     denoisingOn |-> TRUE]

GetDefaultVp9Settings ==
    [resilienceOn |-> TRUE, numberOfTemporalLayers |-> 1,
     numberOfSpatialLayers |-> 1, flexibleMode |-> FALSE]

GetDefaultH264Settings == [frameDroppingOn |-> TRUE]

\* The settings object fills the member of the record's codec type; an object
\* of another codec, or a codec type without a member, is a fault.
FillFaults(ess, vc) ==
    \/ vc.codecType \notin {"kVideoCodecVP8", "kVideoCodecVP9", "kVideoCodecH264"}
    \/ ess.kind # vc.codecType

FillEncoderSpecificSettings(ess, vc) ==
    CASE vc.codecType = "kVideoCodecVP8" -> [vc EXCEPT !.VP8 = ess.fields]
      [] vc.codecType = "kVideoCodecVP9" -> [vc EXCEPT !.VP9 = ess.fields]
      [] OTHER -> [vc EXCEPT !.H264 = ess.fields]

\* Number of layers that fit a dimension: floor(1 + max(0, log2(x / min)))
RECURSIVE LayersFit(_, _)
LayersFit(x, min) == IF x < 2 * min THEN 1 ELSE 1 + LayersFit(x \div 2, min)

RECURSIVE Shr(_, _)
Shr(x, n) == IF n = 0 THEN x ELSE Shr(x \div 2, n - 1)

\* GetSvcConfig: the layer-geometry generator.  Bitrate fields of the
\* descriptors are computed in floating point and are left zero here.
GetSvcConfig(width, height, num_spatial_layers, num_temporal_layers) ==
    IF width <= 0 \/ height <= 0 \/ num_spatial_layers <= 0
       \/ num_temporal_layers <= 0
    THEN << >>
    ELSE LET n == Min2(num_spatial_layers,
                       Min2(LayersFit(width, 320), LayersFit(height, 180)))
         IN  [sl \in 1 .. n |->
                 [ZeroStream EXCEPT
                     !.width = Shr(width, n - sl),
                     !.height = Shr(height, n - sl),
                     !.numberOfTemporalLayers = num_temporal_layers,
                     !.active = TRUE]]

---------------------------------------------------------------------------
(* VideoEncoderConfigToVideoCodec, block by block *)

HasSettings(config) == config.encoder_specific_settings # NoSettings

\* RTC_DCHECKs of lines 88, 89 and 126
HeaderFaults(config, strms) ==
    \/ Len(strms) = 0
    \/ config.min_transmit_bitrate_bps < 0
    \/ Len(strms) > kMaxSimulcastStreams

FlooredMinBitrate(kbps) ==
    IF kbps < kEncoderMinBitrateKbps THEN kEncoderMinBitrateKbps ELSE kbps

\* lines 91-125
XlateHeader(config, strms, codec_type) ==
    [ZeroVideoCodec EXCEPT
        !.codecType = codec_type,
        !.mode = IF config.content_type = "kScreen"
                 THEN "kScreensharing" ELSE "kRealtimeVideo",
        !.targetBitrate =
            IF config.content_type = "kScreen"
               /\ strms[1].num_temporal_layers = 2
            THEN Kbps(strms[1].target_bitrate_bps) ELSE 0,
        !.plType = 0,
        !.numberOfSimulcastStreams = U8(Len(strms)),
        !.minBitrate = FlooredMinBitrate(Kbps(strms[1].min_bitrate_bps)),
        !.active = \E k \in 1 .. Len(strms) : strms[k].active,
        !.timing_frame_thresholds =
            "kDefaultTimingFramesDelayMs, kDefaultOutlierFrameSizePercent"]

\* RTC_DCHECKs of lines 130-142 for streams[idx] (idx counts from 0)
StreamFaults(config, strms, idx) ==
    LET s == strms[idx + 1] IN
    \/ s.width <= 0
    \/ s.height <= 0
    \/ s.max_framerate <= 0
    \/ /\ config.content_type # "kScreen"
       /\ s.max_framerate # strms[1].max_framerate
    \/ s.min_bitrate_bps < 0
    \/ s.target_bitrate_bps < s.min_bitrate_bps
    \/ s.max_bitrate_bps < s.target_bitrate_bps
    \/ s.max_qp < 0

\* lines 144-152: the per-stream record
SimStream(s) ==
    [width |-> U16(s.width), height |-> U16(s.height),
     numberOfTemporalLayers |-> U8(value_or(s.num_temporal_layers, 1)),
     maxBitrate |-> Kbps(s.max_bitrate_bps),
     targetBitrate |-> Kbps(s.target_bitrate_bps),
     minBitrate |-> Kbps(s.min_bitrate_bps),
     qpMax |-> s.max_qp, active |-> s.active]

\* faulty variant of lines 158-160: keeps the larger value
FoldMinBitrateAsMaximum(acc, s) ==
    Max2(U16(acc), U16(Kbps(s.min_bitrate_bps)))

\* lines 158-160
FoldMinBitrate(acc, s) == Min2(U16(acc), U16(Kbps(s.min_bitrate_bps)))

\* faulty variant of line 161: keeps the largest stream instead of adding
FoldMaxBitrateAsMaximum(acc, s) == Max2(acc, Kbps(s.max_bitrate_bps))

\* line 161
FoldMaxBitrate(acc, s) == acc + Kbps(s.max_bitrate_bps)

\* lines 144-163 for streams[idx]
XlateStream(vc, strms, idx) ==
    LET s == strms[idx + 1] IN
    [vc EXCEPT
        !.simulcastStream =
            [k \in DOMAIN vc.simulcastStream |->
                IF k = idx THEN SimStream(s) ELSE vc.simulcastStream[k]],
        !.width = Max2(vc.width, U16(s.width)),
        !.height = Max2(vc.height, U16(s.height)),
        !.minBitrate = FoldMinBitrate(vc.minBitrate, s),
        !.maxBitrate = FoldMaxBitrate(vc.maxBitrate, s),
        !.qpMax = Max2(vc.qpMax, s.max_qp)]

\* lines 166-171: the cap derived when no stream gives a max bitrate
DefaultMaxBitrate(vc) == (vc.width * vc.height * vc.maxFramerate) \div 1000

\* lines 166-176
XlateCaps(vc, strms) ==
    LET derived == IF vc.maxBitrate = 0 THEN DefaultMaxBitrate(vc)
                   ELSE vc.maxBitrate
        floored == IF derived < kEncoderMinBitrateKbps
                   THEN kEncoderMinBitrateKbps ELSE derived
    IN  [vc EXCEPT !.maxBitrate = floored,
                   !.maxFramerate = strms[1].max_framerate]

\* lines 179-180
XlateFill(vc, config) ==
    IF HasSettings(config)
    THEN FillEncoderSpecificSettings(config.encoder_specific_settings, vc)
    ELSE vc

\* lines 184-190 and 203-209: defaults, then the last stream's layer count
ResolvedTemporalLayers(current, strms) ==
    U8(value_or(strms[Len(strms)].num_temporal_layers, current))

TemporalLayersFault(n) == n < 1 \/ n > kMaxTemporalStreams

Vp8Resolved(vc, config, strms) ==
    LET base == IF HasSettings(config) THEN vc.VP8 ELSE GetDefaultVp8Settings
    IN  [base EXCEPT !.numberOfTemporalLayers =
            ResolvedTemporalLayers(base.numberOfTemporalLayers, strms)]

Vp8Faults(vc, config, strms) ==
    TemporalLayersFault(Vp8Resolved(vc, config, strms).numberOfTemporalLayers)

\* lines 195-199
Vp8ResilienceOff(nack, vp8) == nack /\ vp8.numberOfTemporalLayers = 1

\* lines 183-201
XlateVP8(vc, config, strms, nack) ==
    LET vp8 == Vp8Resolved(vc, config, strms) IN
    [vc EXCEPT !.VP8 =
        IF Vp8ResilienceOff(nack, vp8)
        THEN [vp8 EXCEPT !.resilience = "kResilienceOff"] ELSE vp8]

Vp9Resolved(vc, config, strms) ==
    LET base == IF HasSettings(config) THEN vc.VP9 ELSE GetDefaultVp9Settings
    IN  [base EXCEPT !.numberOfTemporalLayers =
            ResolvedTemporalLayers(base.numberOfTemporalLayers, strms)]

\* line 214-215: the fixed screen-share layering
Vp9FixedLayering(vc, config) ==
    vc.mode = "kScreensharing" /\ HasSettings(config)

\* lines 225-234
ResolvedSpatialLayers(vc, config, vp9) ==
    IF config.spatial_layers # << >>
    THEN config.spatial_layers
    ELSE GetSvcConfig(vc.width, vc.height, vp9.numberOfSpatialLayers,
                      vp9.numberOfTemporalLayers)

\* RTC_DCHECKs of lines 210-212, 218-219, 221-223 and 236
Vp9Faults(vc, config, strms) ==
    LET vp9 == Vp9Resolved(vc, config, strms) IN
    \/ TemporalLayersFault(vp9.numberOfTemporalLayers)
    \/ IF Vp9FixedLayering(vc, config)
       THEN vp9.numberOfTemporalLayers # 1 \/ vp9.numberOfSpatialLayers # 2
       ELSE \/ /\ config.spatial_layers # << >>
               /\ Len(config.spatial_layers) # vp9.numberOfSpatialLayers
            \/ ResolvedSpatialLayers(vc, config, vp9) = << >>

\* lines 203-216
XlateVP9(vc, config, strms) ==
    LET vp9 == Vp9Resolved(vc, config, strms) IN
    [vc EXCEPT !.VP9 =
        IF Vp9FixedLayering(vc, config)
        THEN [vp9 EXCEPT !.flexibleMode = TRUE] ELSE vp9]

\* faulty variant of line 238: always copies the first resolved layer
CopyFirstSpatialLayer(vc, layers, idx) ==
    [vc EXCEPT !.spatialLayers =
        [k \in DOMAIN vc.spatialLayers |->
            IF k = idx THEN layers[1] ELSE vc.spatialLayers[k]]]

\* line 238 for slot idx (a slot past the array is not part of the record)
CopySpatialLayer(vc, layers, idx) ==
    [vc EXCEPT !.spatialLayers =
        [k \in DOMAIN vc.spatialLayers |->
            IF k = idx THEN layers[idx + 1] ELSE vc.spatialLayers[k]]]

\* RTC_DCHECKs of lines 244-246 and 250-252
LayeringFaults(layers) ==
    \/ U8(Len(layers)) < 1
    \/ U8(Len(layers)) > kMaxSpatialLayers
    \/ TemporalLayersFault(U8(layers[Len(layers)].numberOfTemporalLayers))

\* lines 242-249
XlateLayering(vc, layers) ==
    [vc EXCEPT
        !.VP9.numberOfSpatialLayers = U8(Len(layers)),
        !.VP9.numberOfTemporalLayers =
            U8(layers[Len(layers)].numberOfTemporalLayers)]

\* lines 255-256
Vp9ResilienceOff(nack, vp9) ==
    /\ nack
    /\ vp9.numberOfTemporalLayers = 1
    /\ vp9.numberOfSpatialLayers = 1

\* lines 255-260
XlateVp9Resilience(vc, nack) ==
    IF Vp9ResilienceOff(nack, vc.VP9)
    THEN [vc EXCEPT !.VP9.resilienceOn = FALSE] ELSE vc

\* lines 263-267
XlateH264(vc, config) ==
    IF HasSettings(config) THEN vc
    ELSE [vc EXCEPT !.H264 = GetDefaultH264Settings]

\* line 270
OtherFaults(config) == HasSettings(config)

---------------------------------------------------------------------------
(* The translator as one function of its arguments *)

Fault == [fault |-> TRUE]

RECURSIVE FoldStreams(_, _, _, _)
FoldStreams(vc, config, strms, idx) ==
    IF idx = Len(strms) THEN vc
    ELSE IF StreamFaults(config, strms, idx) THEN Fault
    ELSE FoldStreams(XlateStream(vc, strms, idx), config, strms, idx + 1)

RECURSIVE CopyLayers(_, _, _)
CopyLayers(vc, layers, idx) ==
    IF idx = Len(layers) THEN vc
    ELSE CopyLayers(CopySpatialLayer(vc, layers, idx), layers, idx + 1)

CodecSpecific(vc, config, strms, nack) ==
    CASE vc.codecType = "kVideoCodecVP8" ->
            IF Vp8Faults(vc, config, strms) THEN Fault
            ELSE XlateVP8(vc, config, strms, nack)
      [] vc.codecType = "kVideoCodecVP9" ->
            IF Vp9Faults(vc, config, strms) THEN Fault
            ELSE LET v == XlateVP9(vc, config, strms)
                     layers == ResolvedSpatialLayers(v, config, v.VP9)
                 IN  IF Vp9FixedLayering(vc, config)
                     THEN XlateVp9Resilience(v, nack)
                     ELSE IF LayeringFaults(layers) THEN Fault
                     ELSE XlateVp9Resilience(
                              XlateLayering(CopyLayers(v, layers, 0), layers),
                              nack)
      [] vc.codecType = "kVideoCodecH264" -> XlateH264(vc, config)
      [] OTHER -> IF OtherFaults(config) THEN Fault ELSE vc

VideoEncoderConfigToVideoCodec(config, strms, codec_type, nack) ==
    IF HeaderFaults(config, strms) THEN Fault
    ELSE LET folded == FoldStreams(XlateHeader(config, strms, codec_type),
                                   config, strms, 0)
         IN  IF folded = Fault THEN Fault
             ELSE LET capped == XlateCaps(folded, strms)
                  IN  IF HasSettings(config)
                         /\ FillFaults(config.encoder_specific_settings, capped)
                      THEN Fault
                      ELSE CodecSpecific(XlateFill(capped, config), config,
                                         strms, nack)

---------------------------------------------------------------------------
(* CreateBitrateAllocator, lines 62-79 *)

\* faulty variant of lines 66-76: the VP9 case is missing
AllocatorKindWithoutSvc(codecType) ==
    CASE codecType = "kVideoCodecVP8" -> "SimulcastRateAllocator"
      [] OTHER -> "DefaultVideoBitrateAllocator"

AllocatorKind(codecType) ==
    CASE codecType = "kVideoCodecVP8" -> "SimulcastRateAllocator"
      [] codecType = "kVideoCodecVP9" -> "SvcRateAllocator"
      [] OTHER -> "DefaultVideoBitrateAllocator"

CreateBitrateAllocator(c) ==
    [kind |-> AllocatorKind(c.codecType), codec |-> c]

---------------------------------------------------------------------------
(* Arguments a caller may pass *)

MaxVariedStreams == 3    \* longest list of freely mixed streams
MaxUniformStreams == 5   \* longest list of equal streams
MaxLayers == 6           \* largest spatial-layer count / explicit list
MaxTemporal == 5         \* largest small temporal-layer count
MaxDepth == 3            \* activation records the model keeps at most

Stream(w, h, fps, min, target, max, qp, ntl, act) ==
    [width |-> w, height |-> h, max_framerate |-> fps,
     min_bitrate_bps |-> min, target_bitrate_bps |-> target,
     max_bitrate_bps |-> max, max_qp |-> qp,
     num_temporal_layers |-> ntl, active |-> act]

Low == Stream(640, 360, 30, 100000, 150000, 200000, 56, Unset, TRUE)
Mid == Stream(640, 360, 30, 200000, 300000, 400000, 56, 1, TRUE)
High == Stream(640, 360, 30, 300000, 450000, 600000, 56, Unset, TRUE)
NoRates == Stream(1280, 720, 30, 0, 0, 0, 63, 2, FALSE)
Tiny == Stream(320, 180, 30, 10999, 11000, 20999, 40, Unset, FALSE)
Wide == Stream(66176, 360, 15, 65546000, 65546000, 65546000, 56, 2, TRUE)

VariedStreams == {Low, Mid, High, NoRates, Tiny, Wide}

\* streams that break one precondition each
Unordered == [Low EXCEPT !.target_bitrate_bps = 90000]
BelowTarget == [Low EXCEPT !.max_bitrate_bps = 140000]
NoWidth == [Low EXCEPT !.width = 0]
NoHeight == [Low EXCEPT !.height = 0]
NoFramerate == [Low EXCEPT !.max_framerate = 0]
Slower == [Low EXCEPT !.max_framerate = 15]

MalformedStreams ==
    {Unordered, BelowTarget, NoWidth, NoHeight, NoFramerate, Slower}

SeqsUpTo(S, n) == UNION {[1 .. k -> S] : k \in 1 .. n}

Uniform(x, n) == [k \in 1 .. n |-> x]

Config(type, content, ess, layers) ==
    [codec_type |-> type, content_type |-> content,
     min_transmit_bitrate_bps |-> 0,
     encoder_specific_settings |-> ess, spatial_layers |-> layers]

Vp8Settings(ntl, res) ==
    [kind |-> "kVideoCodecVP8",
     fields |-> [resilience |-> res, numberOfTemporalLayers |-> ntl,
                 denoisingOn |-> TRUE]]

Vp9Settings(ntl, nsl, res) ==
    [kind |-> "kVideoCodecVP9",
     fields |-> [resilienceOn |-> res, numberOfTemporalLayers |-> ntl,
                 numberOfSpatialLayers |-> nsl, flexibleMode |-> FALSE]]

H264Settings ==
    [kind |-> "kVideoCodecH264", fields |-> [frameDroppingOn |-> FALSE]]

Input(config, hint, strms, nack) ==
    [config |-> config, settings |-> [payload_name |-> hint],
     streams |-> strms, nack_enabled |-> nack]

Layer(w, h, ntl) ==
    [ZeroStream EXCEPT !.width = w, !.height = h,
                       !.numberOfTemporalLayers = ntl, !.active = TRUE]

\* mixed stream lists: the aggregation over streams
AggregationInputs ==
    {Input(Config(c[1], c[2], NoSettings, << >>), "VP8", strms, c[3]) :
        c \in ({"kVideoCodecVP8"} \X {"kRealtimeVideo", "kScreen"} \X BOOLEAN)
                 \cup ({"kVideoCodecH264", "kVideoCodecGeneric"}
                          \X {"kRealtimeVideo"} \X {FALSE}),
        strms \in SeqsUpTo(VariedStreams, MaxVariedStreams)}

\* a stream that breaks a precondition, first or last in the list
MalformedInputs ==
    {Input(Config("kVideoCodecVP8", content, NoSettings, << >>), "VP8",
           strms, FALSE) :
        content \in {"kRealtimeVideo", "kScreen"},
        strms \in UNION {{<<bad>>, <<bad, Low>>, <<Low, Mid, bad>>} :
                            bad \in MalformedStreams}}

\* stream lists up to and past the simulcast capacity, the empty list included
CapacityInputs ==
    {Input(Config(t, "kRealtimeVideo", NoSettings, << >>), "VP8",
           Uniform(Low, n), FALSE) :
        t \in {"kVideoCodecVP8", "kVideoCodecVP9"},
        n \in 0 .. MaxUniformStreams}

Vp9Cases ==
    {<<"kVideoCodecVP9", "kRealtimeVideo">>,
     <<"kVideoCodecVP9", "kScreen">>,
     <<"kVideoCodecMultiplex", "kRealtimeVideo">>}

Vp9SettingsChoices ==
    {NoSettings}
        \cup {Vp9Settings(1, nsl, res) : nsl \in 0 .. MaxLayers, res \in BOOLEAN}

\* VP9 layering from the generator
LayerInputs ==
    {Input(Config(c[1], c[2], ess, << >>), "VP9",
           <<Stream(d[1], d[2], 30, 0, 0, 0, 56, ntl, TRUE)>>, nack) :
        c \in Vp9Cases,
        ess \in Vp9SettingsChoices,
        d \in {<<320, 180>>, <<1280, 720>>},
        ntl \in {Unset, 1, 2},
        nack \in BOOLEAN}

\* VP9 layering set explicitly, up to and past the spatial-layer capacity
ExplicitLayerInputs ==
    {Input(Config(c[1], c[2], ess, Uniform(Layer(320, 180, t), n)), "VP9",
           <<Stream(320, 180, 30, 0, 0, 0, 56, ntl, TRUE)>>, nack) :
        c \in Vp9Cases,
        ess \in Vp9SettingsChoices,
        t \in {1, 2, MaxTemporal},
        n \in 1 .. MaxLayers,
        ntl \in {Unset, 2},
        nack \in BOOLEAN}

\* VP8 temporal layers and resilience
Vp8Inputs ==
    {Input(Config("kVideoCodecVP8", content, ess, << >>), "VP8",
           <<Low, [Mid EXCEPT !.num_temporal_layers = ntl]>>, nack) :
        content \in {"kRealtimeVideo", "kScreen"},
        ess \in {NoSettings}
                \cup {Vp8Settings(n, res) :
                         n \in 0 .. MaxTemporal,
                         res \in {"kResilienceOff", "kResilientStream"}},
        ntl \in {Unset, 257} \cup (0 .. MaxTemporal),
        nack \in BOOLEAN}

\* codec type resolution: every type, hint and kind of settings object
EntryInputs ==
    {Input(Config(t, "kRealtimeVideo", ess, << >>), hint, <<s>>, nack) :
        t \in VideoCodecType,
        hint \in {"VP8", "VP9", "H264", "Multiplex", "red"},
        ess \in {NoSettings, Vp8Settings(1, "kResilientStream"),
                 Vp9Settings(1, 1, TRUE), H264Settings},
        s \in {Low, Mid},
        nack \in BOOLEAN}

Inputs ==
    AggregationInputs \cup MalformedInputs \cup CapacityInputs
        \cup LayerInputs \cup ExplicitLayerInputs \cup Vp8Inputs \cup EntryInputs

---------------------------------------------------------------------------
(* The state machine *)

Top == stack[Len(stack)]

Init ==
    /\ pc = "idle"
    /\ stack = << >>
    /\ outer_config = Config("kVideoCodecUnknown", "kRealtimeVideo", NoSettings, << >>)
    /\ settings = [payload_name |-> "VP8"]
    /\ streams = << >>
    /\ nack_enabled = FALSE
    /\ video_codec = ZeroVideoCodec
    /\ i = 0
    /\ spatial_layers = << >>
    /\ codec = NoCodec
    /\ bitrate_allocator = NoAllocator
    /\ result = FALSE
    /\ simWritten = {}
    /\ slWritten = {}
    /\ factory_arg = NoCodec
    /\ factory_out = NoAllocator

\* SetupCodec's activation record on entry (line 36)
Frame(config) ==
    [config |-> config, codec_type |-> config.codec_type,
     hint_consulted |-> FALSE]

\* faulty variants of line 45: the type is not forced, or forced to VP8
AssociatedConfigUnchanged(config) == config

AssociatedConfigVp8(config) == [config EXCEPT !.codec_type = "kVideoCodecVP8"]

\* line 45: the configuration the recursive call is made with
AssociatedConfig(config) == [config EXCEPT !.codec_type = "kVideoCodecVP9"]

\* faulty variant of line 51: the whole record is reset with the tag
OverwriteWholeRecord(c) ==
    [ZeroVideoCodec EXCEPT !.codecType = "kVideoCodecMultiplex"]

\* line 51
OverwriteCodecType(c) == [c EXCEPT !.codecType = "kVideoCodecMultiplex"]

\* A caller invokes SetupCodec with fresh out-parameters.  The functions keep
\* no state between invocations, so a behaviour follows one invocation.
Call ==
    /\ pc = "idle"
    /\ \E in \in Inputs :
          /\ stack' = <<Frame(in.config)>>
          /\ outer_config' = in.config
          /\ settings' = in.settings
          /\ streams' = in.streams
          /\ nack_enabled' = in.nack_enabled
    /\ pc' = "resolve"
    /\ video_codec' = ZeroVideoCodec
    /\ i' = 0
    /\ spatial_layers' = << >>
    /\ codec' = NoCodec
    /\ bitrate_allocator' = NoAllocator
    /\ result' = FALSE
    /\ simWritten' = {}
    /\ slWritten' = {}
    /\ factory_arg' = NoCodec
    /\ factory_out' = NoAllocator

Abort ==
    /\ pc' = "fault"
    /\ UNCHANGED <<stack, outer_config, settings, streams, nack_enabled, video_codec, i,
                   spatial_layers, codec, bitrate_allocator, result,
                   simWritten, slWritten, factory_arg, factory_out>>

\* lines 40-43
ResolveCodecType ==
    /\ pc = "resolve"
    /\ LET unknown == Top.codec_type = "kVideoCodecUnknown"
           type == IF unknown
                   THEN PayloadStringToCodecType(settings.payload_name)
                   ELSE Top.codec_type
       IN  /\ stack' = [stack EXCEPT ![Len(stack)] =
                           [@ EXCEPT !.codec_type = type,
                                     !.hint_consulted = unknown]]
           /\ pc' = IF type = "kVideoCodecMultiplex"
                    THEN "recurse" ELSE "translate"
    /\ UNCHANGED <<outer_config, settings, streams, nack_enabled, video_codec, i,
                   spatial_layers, codec, bitrate_allocator, result,
                   simWritten, slWritten, factory_arg, factory_out>>

\* lines 44-47: the recursive call
RecurseMultiplex ==
    /\ pc = "recurse"
    /\ Len(stack) < MaxDepth
    /\ stack' = Append(stack, Frame(AssociatedConfig(Top.config)))
    /\ pc' = "resolve"
    /\ UNCHANGED <<outer_config, settings, streams, nack_enabled, video_codec, i,
                   spatial_layers, codec, bitrate_allocator, result,
                   simWritten, slWritten, factory_arg, factory_out>>

\* lines 87-126
TranslateHeader ==
    /\ pc = "translate"
    /\ IF HeaderFaults(Top.config, streams)
       THEN Abort
       ELSE /\ video_codec' = XlateHeader(Top.config, streams, Top.codec_type)
            /\ i' = 0
            /\ simWritten' = {}
            /\ slWritten' = {}
            /\ pc' = "streams"
            /\ UNCHANGED <<stack, outer_config, settings, streams, nack_enabled,
                           spatial_layers, codec, bitrate_allocator, result,
                           factory_arg, factory_out>>

\* lines 128-164, one iteration
TranslateStream ==
    /\ pc = "streams"
    /\ i < Len(streams)
    /\ IF StreamFaults(Top.config, streams, i)
       THEN Abort
       ELSE /\ video_codec' = XlateStream(video_codec, streams, i)
            /\ simWritten' = simWritten \cup {i}
            /\ i' = i + 1
            /\ UNCHANGED <<pc, stack, outer_config, settings, streams, nack_enabled,
                           spatial_layers, codec, bitrate_allocator, result,
                           slWritten, factory_arg, factory_out>>

\* lines 166-176
TranslateCaps ==
    /\ pc = "streams"
    /\ i = Len(streams)
    /\ video_codec' = XlateCaps(video_codec, streams)
    /\ pc' = "fill"
    /\ UNCHANGED <<stack, outer_config, settings, streams, nack_enabled, i, spatial_layers,
                   codec, bitrate_allocator, result, simWritten, slWritten,
                   factory_arg, factory_out>>

\* lines 179-180
TranslateFill ==
    /\ pc = "fill"
    /\ IF /\ HasSettings(Top.config)
          /\ FillFaults(Top.config.encoder_specific_settings, video_codec)
       THEN Abort
       ELSE /\ video_codec' = XlateFill(video_codec, Top.config)
            /\ pc' = "specific"
            /\ UNCHANGED <<stack, outer_config, settings, streams, nack_enabled, i,
                           spatial_layers, codec, bitrate_allocator, result,
                           simWritten, slWritten, factory_arg, factory_out>>

\* lines 183-201
TranslateVP8 ==
    /\ pc = "specific"
    /\ video_codec.codecType = "kVideoCodecVP8"
    /\ IF Vp8Faults(video_codec, Top.config, streams)
       THEN Abort
       ELSE /\ video_codec' =
                   XlateVP8(video_codec, Top.config, streams, nack_enabled)
            /\ pc' = "translated"
            /\ UNCHANGED <<stack, outer_config, settings, streams, nack_enabled, i,
                           spatial_layers, codec, bitrate_allocator, result,
                           simWritten, slWritten, factory_arg, factory_out>>

\* lines 202-236
TranslateVP9 ==
    /\ pc = "specific"
    /\ video_codec.codecType = "kVideoCodecVP9"
    /\ IF Vp9Faults(video_codec, Top.config, streams)
       THEN Abort
       ELSE LET v == XlateVP9(video_codec, Top.config, streams) IN
            /\ video_codec' = v
            /\ IF Vp9FixedLayering(video_codec, Top.config)
               THEN pc' = "resilience" /\ UNCHANGED spatial_layers
               ELSE /\ pc' = "layers"
                    /\ spatial_layers' =
                           ResolvedSpatialLayers(v, Top.config, v.VP9)
            /\ i' = 0
            /\ UNCHANGED <<stack, outer_config, settings, streams, nack_enabled, codec,
                           bitrate_allocator, result, simWritten, slWritten,
                           factory_arg, factory_out>>

\* lines 237-239, one iteration.  A write past the end of spatialLayers[] is
\* undefined behaviour: the build may crash at once or run on.
CopyLayer ==
    /\ pc = "layers"
    /\ i < Len(spatial_layers)
    /\ slWritten' = slWritten \cup {i}
    /\ video_codec' = CopySpatialLayer(video_codec, spatial_layers, i)
    /\ i' = i + 1
    /\ \/ UNCHANGED pc
       \/ i >= kMaxSpatialLayers /\ pc' = "fault"
    /\ UNCHANGED <<stack, outer_config, settings, streams, nack_enabled, spatial_layers,
                   codec, bitrate_allocator, result, simWritten, factory_arg,
                   factory_out>>

\* lines 241-253
TranslateLayering ==
    /\ pc = "layers"
    /\ i = Len(spatial_layers)
    /\ IF LayeringFaults(spatial_layers)
       THEN Abort
       ELSE /\ video_codec' = XlateLayering(video_codec, spatial_layers)
            /\ pc' = "resilience"
            /\ UNCHANGED <<stack, outer_config, settings, streams, nack_enabled, i,
                           spatial_layers, codec, bitrate_allocator, result,
                           simWritten, slWritten, factory_arg, factory_out>>

\* lines 255-261
TranslateVp9Resilience ==
    /\ pc = "resilience"
    /\ video_codec' = XlateVp9Resilience(video_codec, nack_enabled)
    /\ pc' = "translated"
    /\ UNCHANGED <<stack, outer_config, settings, streams, nack_enabled, i, spatial_layers,
                   codec, bitrate_allocator, result, simWritten, slWritten,
                   factory_arg, factory_out>>

\* lines 263-267
TranslateH264 ==
    /\ pc = "specific"
    /\ video_codec.codecType = "kVideoCodecH264"
    /\ video_codec' = XlateH264(video_codec, Top.config)
    /\ pc' = "translated"
    /\ UNCHANGED <<stack, outer_config, settings, streams, nack_enabled, i, spatial_layers,
                   codec, bitrate_allocator, result, simWritten, slWritten,
                   factory_arg, factory_out>>

\* lines 268-272
TranslateOther ==
    /\ pc = "specific"
    /\ video_codec.codecType \notin
          {"kVideoCodecVP8", "kVideoCodecVP9", "kVideoCodecH264"}
    /\ IF OtherFaults(Top.config)
       THEN Abort
       ELSE /\ pc' = "translated"
            /\ UNCHANGED <<stack, outer_config, settings, streams, nack_enabled,
                           video_codec, i, spatial_layers, codec,
                           bitrate_allocator, result, simWritten, slWritten,
                           factory_arg, factory_out>>

\* lines 55-56 and 275: the translator's record is stored through codec
AssignCodec ==
    /\ pc = "translated"
    /\ codec' = video_codec
    /\ pc' = "allocate"
    /\ UNCHANGED <<stack, outer_config, settings, streams, nack_enabled, video_codec, i,
                   spatial_layers, bitrate_allocator, result, simWritten,
                   slWritten, factory_arg, factory_out>>

\* line 57
AssignAllocator ==
    /\ pc = "allocate"
    /\ bitrate_allocator' = CreateBitrateAllocator(codec)
    /\ pc' = "return"
    /\ UNCHANGED <<stack, outer_config, settings, streams, nack_enabled, video_codec, i,
                   spatial_layers, codec, result, simWritten, slWritten,
                   factory_arg, factory_out>>

\* where a returning activation leaves the invocation
AfterReturn == IF Len(stack) = 1 THEN "done" ELSE "returned"

\* line 59
ReturnTrue ==
    /\ pc = "return"
    /\ result' = TRUE
    /\ stack' = SubSeq(stack, 1, Len(stack) - 1)
    /\ pc' = AfterReturn
    /\ UNCHANGED <<outer_config, settings, streams, nack_enabled, video_codec, i,
                   spatial_layers, codec, bitrate_allocator, simWritten,
                   slWritten, factory_arg, factory_out>>

\* lines 46-52: the caller's side of the recursive call
AfterRecursion ==
    /\ pc = "returned"
    /\ IF result
       THEN codec' = OverwriteCodecType(codec)
       ELSE UNCHANGED codec
    /\ UNCHANGED result
    /\ stack' = SubSeq(stack, 1, Len(stack) - 1)
    /\ pc' = AfterReturn
    /\ UNCHANGED <<outer_config, settings, streams, nack_enabled, video_codec, i,
                   spatial_layers, bitrate_allocator, simWritten, slWritten,
                   factory_arg, factory_out>>

\* A caller hands a record to CreateBitrateAllocator directly (lines 62-79).
DirectCreateBitrateAllocator ==
    /\ pc = "done"
    /\ result
    /\ \E t \in VideoCodecType :
          /\ factory_arg' = [codec EXCEPT !.codecType = t]
          /\ factory_out' = CreateBitrateAllocator([codec EXCEPT !.codecType = t])
    /\ pc' = "factory"
    /\ UNCHANGED <<stack, outer_config, settings, streams, nack_enabled, video_codec, i,
                   spatial_layers, codec, bitrate_allocator, result,
                   simWritten, slWritten>>

Next ==
    \/ Call
    \/ ResolveCodecType
    \/ RecurseMultiplex
    \/ TranslateHeader
    \/ TranslateStream
    \/ TranslateCaps
    \/ TranslateFill
    \/ TranslateVP8
    \/ TranslateVP9
    \/ CopyLayer
    \/ TranslateLayering
    \/ TranslateVp9Resilience
    \/ TranslateH264
    \/ TranslateOther
    \/ AssignCodec
    \/ AssignAllocator
    \/ ReturnTrue
    \/ AfterRecursion
    \/ DirectCreateBitrateAllocator

Spec == Init /\ [][Next]_vars

---------------------------------------------------------------------------
(* Properties *)

\* SetupCodec has returned true and codec holds the record it built
Returned == pc = "done" /\ result

\* the codec type the caller's call resolves (lines 36-42)
OuterType ==
    IF outer_config.codec_type = "kVideoCodecUnknown"
    THEN PayloadStringToCodecType(settings.payload_name)
    ELSE outer_config.codec_type

WellFormedStream(s) ==
    /\ s.width > 0
    /\ s.height > 0
    /\ s.max_framerate > 0
    /\ 0 <= s.min_bitrate_bps
    /\ s.min_bitrate_bps <= s.target_bitrate_bps
    /\ s.target_bitrate_bps <= s.max_bitrate_bps

WellFormed ==
    /\ Len(streams) >= 1
    /\ Len(streams) <= kMaxSimulcastStreams
    /\ \A k \in 1 .. Len(streams) : WellFormedStream(streams[k])

RECURSIVE SumMaxKbps(_)
SumMaxKbps(strms) ==
    IF strms = << >> THEN 0
    ELSE (strms[1].max_bitrate_bps \div 1000) + SumMaxKbps(Tail(strms))

\* C1 as stated: for every well-formed input the returned record has
\* maxBitrate >= minBitrate >= 30 kbps and minBitrate <= every stream's
\* min_bitrate_bps / 1000.
C1_MinBitrateFloored ==
    (Returned /\ WellFormed) =>
        /\ codec.maxBitrate >= codec.minBitrate
        /\ codec.minBitrate >= 30
        /\ \A k \in 1 .. Len(streams) :
              codec.minBitrate <= streams[k].min_bitrate_bps \div 1000

\* C1 amended: maxBitrate >= minBitrate, maxBitrate >= 30 and minBitrate is
\* at most every stream's min_bitrate_bps / 1000; minBitrate >= 30 holds when
\* every stream's min_bitrate_bps / 1000, as a 16-bit value, is at least 30.
C1_BitrateBounds ==
    (Returned /\ WellFormed) =>
        /\ codec.maxBitrate >= codec.minBitrate
        /\ codec.maxBitrate >= 30
        /\ \A k \in 1 .. Len(streams) :
              codec.minBitrate <= streams[k].min_bitrate_bps \div 1000
        /\ (\A k \in 1 .. Len(streams) :
               (streams[k].min_bitrate_bps \div 1000) % 65536 >= 30)
              => codec.minBitrate >= 30

\* a returned record whose minimum fell below the floor through a later stream
C1_Witness ==
    /\ Returned
    /\ WellFormed
    /\ Len(streams) >= 2
    /\ streams[1].min_bitrate_bps \div 1000 >= 30
    /\ codec.minBitrate < 30
    /\ codec.maxBitrate > 30

\* C2 as stated: when no stream gives a max bitrate, maxBitrate is
\* max(30, floor(width * height * F / 1000)) with F stream 0's max_framerate.
C2_DefaultCapPerPixel ==
    (Returned /\ WellFormed /\ SumMaxKbps(streams) = 0) =>
        codec.maxBitrate =
            Max2(30, (codec.width * codec.height * streams[1].max_framerate)
                        \div 1000)

\* C6: for every well-formed stream list whose summed max bitrates reach
\* 30 kbps, maxBitrate is that sum (each term truncated to kbps); the three
\* stream example gives maxBitrate 1200 and minBitrate 100.
C6_MaxBitrateIsSum ==
    (Returned /\ WellFormed) =>
        /\ SumMaxKbps(streams) >= 30 => codec.maxBitrate = SumMaxKbps(streams)
        /\ (/\ Len(streams) = 3
            /\ \A k \in 1 .. 3 :
                  /\ streams[k].max_bitrate_bps = k * 200000
                  /\ streams[k].min_bitrate_bps = k * 100000)
              => codec.maxBitrate = 1200 /\ codec.minBitrate = 100

\* the three stream example has been translated
C6_Witness ==
    /\ Returned
    /\ streams = <<Low, Mid, High>>
    /\ codec.maxBitrate = 1200
    /\ codec.minBitrate = 100

\* C3: a call that resolves to multiplex returns true with a record whose
\* codecType is multiplex and whose every other field is that of the record
\* built for the same config, streams and nack flag with codec type VP9.
C3_MultiplexIsVp9Retagged ==
    (pc = "done" /\ OuterType = "kVideoCodecMultiplex") =>
        LET vp9 == VideoEncoderConfigToVideoCodec(
                       [outer_config EXCEPT !.codec_type = "kVideoCodecVP9"],
                       streams, "kVideoCodecVP9", nack_enabled)
        IN  /\ result
            /\ vp9 # Fault
            /\ codec.codecType = "kVideoCodecMultiplex"
            /\ codec = [vp9 EXCEPT !.codecType = "kVideoCodecMultiplex"]

\* a multiplex call has returned a record with two generated spatial layers
C3_Witness ==
    /\ Returned
    /\ outer_config.codec_type = "kVideoCodecMultiplex"
    /\ codec.codecType = "kVideoCodecMultiplex"
    /\ codec.VP9.numberOfSpatialLayers = 2
    /\ codec.spatialLayers[1].width = 1280

\* the settings in force before the layer counts are reconciled
PriorVp8 ==
    IF HasSettings(outer_config)
    THEN outer_config.encoder_specific_settings.fields
    ELSE GetDefaultVp8Settings

PriorVp9 ==
    IF HasSettings(outer_config)
    THEN outer_config.encoder_specific_settings.fields
    ELSE GetDefaultVp9Settings

LastStream == streams[Len(streams)]

\* C4 as stated: the VP8 temporal-layer count is the last stream's explicit
\* num_temporal_layers if set, else the settings' or default value, and lies
\* in [1, kMaxTemporalStreams]; resilience is switched off exactly when nack
\* is enabled and the resolved counts are 1, and is otherwise the settings'
\* or default value.
C4_ResilienceReconciled ==
    /\ (Returned /\ codec.codecType = "kVideoCodecVP8") =>
          LET count == IF LastStream.num_temporal_layers # Unset
                       THEN LastStream.num_temporal_layers
                       ELSE PriorVp8.numberOfTemporalLayers
          IN  /\ codec.VP8.numberOfTemporalLayers = count
              /\ count >= 1
              /\ count <= kMaxTemporalStreams
              /\ codec.VP8.resilience =
                    IF nack_enabled /\ count = 1
                    THEN "kResilienceOff" ELSE PriorVp8.resilience
    /\ (Returned /\ codec.codecType \in
                       {"kVideoCodecVP9", "kVideoCodecMultiplex"}) =>
          codec.VP9.resilienceOn =
             IF /\ nack_enabled
                /\ codec.VP9.numberOfTemporalLayers = 1
                /\ codec.VP9.numberOfSpatialLayers = 1
             THEN FALSE ELSE PriorVp9.resilienceOn

\* C5: for VP9 without explicit spatial layers and outside the fixed
\* screen-share layering, the spatial-layer count is the length of the
\* generator's list, slot i holds generated descriptor i, and the
\* temporal-layer count is the last generated descriptor's.
C5_GeneratedLayersCopied ==
    (/\ Returned
     /\ codec.codecType \in {"kVideoCodecVP9", "kVideoCodecMultiplex"}
     /\ outer_config.spatial_layers = << >>
     /\ ~(outer_config.content_type = "kScreen" /\ HasSettings(outer_config)))
    =>
        LET ntl == IF LastStream.num_temporal_layers # Unset
                   THEN LastStream.num_temporal_layers % 256
                   ELSE PriorVp9.numberOfTemporalLayers
            gen == GetSvcConfig(codec.width, codec.height,
                                PriorVp9.numberOfSpatialLayers, ntl)
        IN  /\ gen # << >>
            /\ codec.VP9.numberOfSpatialLayers = Len(gen)
            /\ \A k \in 1 .. Len(gen) : codec.spatialLayers[k - 1] = gen[k]
            /\ codec.VP9.numberOfTemporalLayers =
                  gen[Len(gen)].numberOfTemporalLayers

\* three generated layers with two temporal layers have been copied
C5_Witness ==
    /\ Returned
    /\ codec.codecType = "kVideoCodecVP9"
    /\ outer_config.spatial_layers = << >>
    /\ HasSettings(outer_config)
    /\ codec.VP9.numberOfSpatialLayers = 3
    /\ codec.VP9.numberOfTemporalLayers = 2
    /\ codec.spatialLayers[0].width = 320
    /\ codec.spatialLayers[2].width = 1280

ExpectedKind(type) ==
    IF type = "kVideoCodecVP8" THEN "SimulcastRateAllocator"
    ELSE IF type = "kVideoCodecVP9" THEN "SvcRateAllocator"
    ELSE "DefaultVideoBitrateAllocator"

\* C7: CreateBitrateAllocator always yields a strategy: simulcast for VP8,
\* SVC for VP9, default for every other type; the strategy is built from the
\* record passed in, which the call leaves as it was.
C7_AllocatorSelection ==
    /\ pc = "factory" =>
          /\ factory_out # NoAllocator
          /\ factory_out.kind = ExpectedKind(factory_arg.codecType)
          /\ factory_out.codec = factory_arg
          /\ [factory_arg EXCEPT !.codecType = codec.codecType] = codec
    /\ pc = "return" =>
          /\ bitrate_allocator # NoAllocator
          /\ bitrate_allocator.kind = ExpectedKind(codec.codecType)
          /\ bitrate_allocator.codec = codec
          /\ codec = video_codec

\* a record tagged multiplex was handed to the factory
C7_Witness ==
    /\ pc = "factory"
    /\ factory_arg.codecType = "kVideoCodecMultiplex"
    /\ factory_out.kind = "DefaultVideoBitrateAllocator"

\* C8 as stated: no per-stream slot at an index >= kMaxSimulcastStreams and
\* no spatial-layer slot at an index >= kMaxSpatialLayers is ever written.
C8_SlotsWithinCapacity ==
    /\ \A k \in simWritten : k < kMaxSimulcastStreams
    /\ \A k \in slWritten : k < kMaxSpatialLayers

InnerFrames == {k \in 1 .. Len(stack) : k > 1}

\* C9 (safety part): at most one recursive activation exists; it runs on a
\* config whose codec type is VP9, never consults the payload-name hint and
\* never takes the multiplex branch.
C9_DepthAtMostOne ==
    /\ Len(stack) <= 2
    /\ \A k \in InnerFrames :
          /\ stack[k].config.codec_type = "kVideoCodecVP9"
          /\ stack[k].codec_type = "kVideoCodecVP9"
          /\ ~stack[k].hint_consulted
          /\ stack[k].config =
                [outer_config EXCEPT !.codec_type = "kVideoCodecVP9"]
    /\ pc = "recurse" => Len(stack) = 1

Finished == pc \in {"done", "fault", "factory"}

\* C9: every SetupCodec invocation finishes, and its recursion depth never
\* exceeds 1 whatever the config's type and the hint's payload name are.
C9_BoundedRecursionTerminates ==
    /\ []C9_DepthAtMostOne
    /\ (pc = "resolve") ~> Finished

\* the recursive activation runs for a type that came from the hint
C9_Witness ==
    /\ Len(stack) = 2
    /\ pc = "translate"
    /\ stack[1].hint_consulted
    /\ outer_config.codec_type = "kVideoCodecUnknown"
    /\ settings.payload_name = "Multiplex"

\* C10: for a call that resolves to multiplex the returned allocator is the
\* SVC strategy, built from the record while it was tagged VP9; it is not
\* the strategy CreateBitrateAllocator selects for the returned record.
C10_MultiplexAllocatorIsSvc ==
    (pc = "done" /\ OuterType = "kVideoCodecMultiplex") =>
        /\ bitrate_allocator.kind = "SvcRateAllocator"
        /\ bitrate_allocator.codec.codecType = "kVideoCodecVP9"
        /\ bitrate_allocator.codec =
              [codec EXCEPT !.codecType = "kVideoCodecVP9"]
        /\ codec.codecType = "kVideoCodecMultiplex"
        /\ CreateBitrateAllocator(codec).kind = "DefaultVideoBitrateAllocator"
        /\ CreateBitrateAllocator(codec).kind # bitrate_allocator.kind

\* a multiplex call resolved from the hint has returned
C10_Witness ==
    /\ Returned
    /\ OuterType = "kVideoCodecMultiplex"
    /\ outer_config.codec_type = "kVideoCodecUnknown"
    /\ bitrate_allocator.kind = "SvcRateAllocator"

\* every statement of the running invocation is eventually executed
FairSpec == Spec /\ WF_vars(Next)

====
